---- MODULE Spec2Model ----
(***************************************************************************)
(* Model of the DeploymentStack declaration (an ECS/Fargate service behind *)
(* an application load balancer) and of the stageTitleCase helper.         *)
(*                                                                         *)
(* Strings are sequences of one-character strings, so that concatenation,  *)
(* case mapping and equality of identifiers are computed character by      *)
(* character.  One assembly pass is the constructor of DeploymentStack run  *)
(* statement by statement; pc is the position in the constructor.          *)
(***************************************************************************)
EXTENDS Integers, Sequences, FiniteSets, TLC

\* ------------------------------------------------------------------------
\* Bounds
\* ------------------------------------------------------------------------

\* Longest enumerated stage name.
MaxLen == 2

\* The passes read the millisecond clock within a window of MaxTick + 1
\* readings that starts at ClockStart (the decimal length changes inside it).
ClockStart == 9

MaxTick == 2

\* ------------------------------------------------------------------------
\* Characters and case mapping (String.prototype.toUpperCase / toLowerCase)
\* ------------------------------------------------------------------------

LowerLetters ==
    <<"a", "b", "c", "d", "e", "f", "g", "h", "i", "j", "k", "l", "m", "n", "o", "p", "q", "r", "s", "t", "u", "v", "w", "x", "y", "z">>

UpperLetters ==
    <<"A", "B", "C", "D", "E", "F", "G", "H", "I", "J", "K", "L", "M", "N", "O", "P", "Q", "R", "S", "T", "U", "V", "W", "X", "Y", "Z">>

Digits ==
    <<"0", "1", "2", "3", "4", "5", "6", "7", "8", "9">>

Range(f) == { f[i] : i \in DOMAIN f }

LetterIndex(letters, c) == CHOOSE i \in 1..Len(letters) : letters[i] = c

toUpperCase(c) ==
    IF c \in Range(LowerLetters) THEN UpperLetters[LetterIndex(LowerLetters, c)] ELSE c

toLowerCase(c) ==
    IF c \in Range(UpperLetters) THEN LowerLetters[LetterIndex(UpperLetters, c)] ELSE c

StrToLowerCase(s) == [ i \in 1..Len(s) |-> toLowerCase(s[i]) ]

\* The regular-expression class \w : [A-Za-z0-9_].
IsWordChar(c) ==
    c \in Range(LowerLetters) \cup Range(UpperLetters) \cup Range(Digits) \cup {"_"}

\* The regular-expression class \s ; \S is its complement.
IsSpace(c) == c \in {" ", "\t", "\n"}

\* ------------------------------------------------------------------------
\* stageTitleCase: str.replace(/\w\S*/g, callback)
\* ------------------------------------------------------------------------

\* A callback that lowercases from index 0 instead of index 1.
TitleCallbackFromZero(text) ==
    <<toUpperCase(text[1])>> \o StrToLowerCase(text)

\* A callback that leaves the remainder of the match as it is.
TitleCallbackKeepRest(text) ==
    <<toUpperCase(text[1])>> \o SubSeq(text, 2, Len(text))

\* text.charAt(0).toUpperCase() + text.substring(1).toLowerCase()
TitleCallback(text) ==
    <<toUpperCase(text[1])>> \o StrToLowerCase(SubSeq(text, 2, Len(text)))

\* Last index of the match of \w\S* that starts at index i (greedy \S*).
RECURSIVE MatchEnd(_, _)
MatchEnd(str, i) ==
    IF i < Len(str) /\ ~IsSpace(str[i + 1]) THEN MatchEnd(str, i + 1) ELSE i

\* Global replace, scanning from index i: text outside matches is copied.
RECURSIVE ReplaceFrom(_, _)
ReplaceFrom(str, i) ==
    IF i > Len(str) THEN <<>>
    ELSE IF IsWordChar(str[i])
         THEN LET j == MatchEnd(str, i)
              IN  TitleCallback(SubSeq(str, i, j)) \o ReplaceFrom(str, j + 1)
         ELSE <<str[i]>> \o ReplaceFrom(str, i + 1)

stageTitleCase(str) == ReplaceFrom(str, 1)

\* ------------------------------------------------------------------------
\* Inputs of one assembly pass
\* ------------------------------------------------------------------------

\* Characters of the enumerated stage names: a lowercase letter, an
\* uppercase letter, a punctuation character and a whitespace character.
Alphabet == {"a", "B", "-", " "}

Strings(n) == UNION { [1..k -> Alphabet] : k \in 0..n }

\* Stage names in use, and names that spell fragments of the identifiers.
NamedStages ==
    { <<"s", "t", "a", "g", "i", "n", "g">>, <<"p", "r", "o", "d", "u", "c", "t", "i", "o", "n">>, <<"u", "s", "e", "r", "-", "a", "c", "c", " ", "t", "e", "s", "t">>, <<"S", "e", "r", "v", "i", "c", "e">>,
      <<"T", "a", "s", "k", "R", "o", "l", "e">>, <<"E", "C", "S">>, <<"d", "b", "S", "e", "c", "r", "e", "t">> }

StageNames == Strings(MaxLen) \cup NamedStages

ImageTags == { <<"a", "b", "c", "1", "2", "3">>, <<"l", "a", "t", "e", "s", "t">> }

\* Values the stored parameters can resolve to.
SecretNames == { <<"r", "d", "s", "-", "s", "e", "c", "r", "e", "t">>, <<"d", "b", "/", "c", "r", "e", "d", "e", "n", "t", "i", "a", "l", "s">> }

\* Values Date.now() can return.
ClockReadings == ClockStart..(ClockStart + MaxTick)

SecurityGroupIds == { <<"s", "g", "-", "0", "a", "1", "b", "2", "c">> }

\* ------------------------------------------------------------------------
\* Constants of utils.ts and fixed strings of the declaration
\* ------------------------------------------------------------------------

ECR_REPOSITORY_NAME ==
    <<"s", "e", "r", "v", "e", "r", "-", "r", "e", "p", "o", "s", "i", "t", "o", "r", "y">>

ECS_TASKS_URL ==
    <<"e", "c", "s", "-", "t", "a", "s", "k", "s", ".", "a", "m", "a", "z", "o", "n", "a", "w", "s", ".", "c", "o", "m">>

\* Identifiers registered directly under the stack scope.
DbSecretId == <<"d", "b", "S", "e", "c", "r", "e", "t">>

ClusterId(title) == <<"E", "C", "S">> \o title \o <<"-", "C", "l", "u", "s", "t", "e", "r">>

ExecutionRoleId(title) == title \o <<"E", "x", "e", "c", "u", "t", "i", "o", "n", "R", "o", "l", "e">>

\* The task role declared under the identifier of the execution role.
TaskRoleIdAsExecution(title) == title \o <<"E", "x", "e", "c", "u", "t", "i", "o", "n", "R", "o", "l", "e">>

TaskRoleId(title) == title \o <<"T", "a", "s", "k", "R", "o", "l", "e">>

TaskDefId(stageName) == <<"T", "a", "s", "k", "D", "e", "f", "-">> \o stageName

RepositoryId == <<"E", "C", "R">>

ContainerId(title) == title \o <<"C", "o", "n", "t", "a", "i", "n", "e", "r">>

LogStreamPrefix(title) == title \o <<"L", "o", "g", "s">>

FargateSecurityGroupId(title) == title \o <<"F", "a", "r", "g", "a", "t", "e", "S", "e", "c", "u", "r", "i", "t", "y", "G", "r", "o", "u", "p">>

ServiceId(title) == title \o <<"S", "e", "r", "v", "i", "c", "e">>

RdsSecurityGroupId(title) == <<"R", "D", "S">> \o title \o <<"S", "e", "c", "u", "r", "i", "t", "y", "G", "r", "o", "u", "p">>

OutputId(title) == <<"L", "o", "a", "d", "B", "a", "l", "a", "n", "c", "e", "r">> \o title \o <<"D", "N", "S">>

\* Number.prototype.toString of a non-negative integer: decimal digits.
RECURSIVE NumberToString(_)

NumberToString(n) ==
    IF n < 10 THEN <<Digits[n + 1]>>
    ELSE NumberToString(n \div 10) \o <<Digits[(n % 10) + 1]>>

\* The resource identifier of a secret imported by name.
SecretArn(secretName) ==
    <<"a", "r", "n", ":", "a", "w", "s", ":", "s", "e", "c", "r", "e", "t", "s", "m", "a", "n", "a", "g", "e", "r", ":", "r", "e", "g", "i", "o", "n", ":", "a", "c", "c", "o", "u", "n", "t", ":", "s", "e", "c", "r", "e", "t", ":">> \o secretName

\* ------------------------------------------------------------------------
\* State
\* ------------------------------------------------------------------------

VARIABLES
    props,                      \* DeploymentStackProps: stageName, imageTag
    context,                    \* what the stored-parameter lookups resolve to
    pc,                         \* position in the constructor
    stageTitle,                 \* const stageTitle
    vpc,                        \* const vpc
    children,                   \* constructs registered under the stack scope
    dbSecret,                   \* const dbSecret
    secretsManagerPermissions,  \* const secretsManagerPermissions
    ecsCluster,                 \* const ecsCluster
    roles,                      \* const executionRole, const taskRole
    taskDefinition,             \* const taskDefinition, with its containers
    repository,                 \* const repository
    securityGroups,             \* const fargateSecurityGroup, rdsSecurityGroup
    fargateService,             \* const fargateService
    rules,                      \* security-group rules added by allowFrom
    outputs,                    \* published outputs (CfnOutput)
    now,                        \* the reading of Date.now() of this pass
    prev                        \* summary of the previous completed pass

vars ==
    <<props, context, pc, stageTitle, vpc, children,
     dbSecret, secretsManagerPermissions, ecsCluster, roles, taskDefinition, repository,
     securityGroups, fargateService, rules, outputs, now, prev>>

\* A local constant that is not yet assigned is the empty sequence; once
\* assigned it is a one-element sequence.
Unset == <<>>

\* ------------------------------------------------------------------------
\* The construct tree: a scope rejects a second child with the same id
\* ------------------------------------------------------------------------

Declared(id) == \E i \in 1..Len(children) : children[i].id = id

Child(id, kind) == Append(children, [id |-> id, kind |-> kind])

\* The constructor throws: the pass ends without a resource graph.
Abort ==
    /\ pc' = "aborted"
    /\ UNCHANGED <<props, context, stageTitle, vpc, children, dbSecret,
                       secretsManagerPermissions, ecsCluster, roles, taskDefinition,
                       repository, securityGroups, fargateService, rules, outputs,
                       now, prev>>

\* ------------------------------------------------------------------------
\* Values built by the constructor
\* ------------------------------------------------------------------------

\* StringParameter.valueFromLookup(this, RDS_SECRET_NAME_SSM_NAME)
LookupSecretName == context.secretName

\* StringParameter.valueFromLookup(this, RDS_SECURITY_GROUP_ID_SSM_NAME)
LookupSecurityGroupId == context.securityGroupId

\* A statement that allows reading every secret.
SecretsManagerStatementAnyResource(secret) ==
    [ effect    |-> "ALLOW",
      actions   |-> << <<"s", "e", "c", "r", "e", "t", "s", "m", "a", "n", "a", "g", "e", "r", ":", "G", "e", "t", "S", "e", "c", "r", "e", "t", "V", "a", "l", "u", "e">> >>,
      resources |-> << <<"*">> >> ]

SecretsManagerStatement(secret) ==
    [ effect    |-> "ALLOW",
      actions   |-> << <<"s", "e", "c", "r", "e", "t", "s", "m", "a", "n", "a", "g", "e", "r", ":", "G", "e", "t", "S", "e", "c", "r", "e", "t", "V", "a", "l", "u", "e">> >>,
      resources |-> << secret.secretArn >> ]

\* A statement that allows every action of the image registry.
ExecutionStatementWildcard ==
    [ effect    |-> "ALLOW",
      resources |-> << <<"*">> >>,
      actions   |-> << <<"e", "c", "r", ":", "*">>,
                       <<"l", "o", "g", "s", ":", "C", "r", "e", "a", "t", "e", "L", "o", "g", "S", "t", "r", "e", "a", "m">>,
                       <<"l", "o", "g", "s", ":", "P", "u", "t", "L", "o", "g", "E", "v", "e", "n", "t", "s">> >> ]

ExecutionStatement ==
    [ effect    |-> "ALLOW",
      resources |-> << <<"*">> >>,
      actions   |-> << <<"e", "c", "r", ":", "G", "e", "t", "A", "u", "t", "h", "o", "r", "i", "z", "a", "t", "i", "o", "n", "T", "o", "k", "e", "n">>,
                       <<"e", "c", "r", ":", "B", "a", "t", "c", "h", "C", "h", "e", "c", "k", "L", "a", "y", "e", "r", "A", "v", "a", "i", "l", "a", "b", "i", "l", "i", "t", "y">>,
                       <<"e", "c", "r", ":", "G", "e", "t", "D", "o", "w", "n", "l", "o", "a", "d", "U", "r", "l", "F", "o", "r", "L", "a", "y", "e", "r">>,
                       <<"e", "c", "r", ":", "B", "a", "t", "c", "h", "G", "e", "t", "I", "m", "a", "g", "e">>,
                       <<"l", "o", "g", "s", ":", "C", "r", "e", "a", "t", "e", "L", "o", "g", "S", "t", "r", "e", "a", "m">>,
                       <<"l", "o", "g", "s", ":", "P", "u", "t", "L", "o", "g", "E", "v", "e", "n", "t", "s">> >> ]

NewRole(id) ==
    [ id         |-> id,
      assumedBy  |-> [ servicePrincipal |-> ECS_TASKS_URL ],
      statements |-> <<>> ]

\* A task definition whose task role is the execution role.
TaskDefinitionPropsSharedRole(id) ==
    [ id             |-> id,
      memoryLimitMiB |-> 512,
      cpu            |-> 256,
      executionRole  |-> "executionRole",
      taskRole       |-> "executionRole",
      containers     |-> <<>> ]

TaskDefinitionProps(id) ==
    [ id             |-> id,
      memoryLimitMiB |-> 512,
      cpu            |-> 256,
      executionRole  |-> "executionRole",
      taskRole       |-> "taskRole",
      containers     |-> <<>> ]

\* ecsSecret.fromSecretsManager(secret, field)
FromSecretsManager(secret, field) ==
    [ kind |-> "secretsManagerReference", secret |-> secret, field |-> field ]

\* Secret bindings that pass the password as a literal value.
SecretBindingsPlainPassword ==
    [ DBHOST |-> FromSecretsManager("dbSecret", "host"),
      DBNAME |-> FromSecretsManager("dbSecret", "dbname"),
      DBUSER |-> FromSecretsManager("dbSecret", "username"),
      DBPASS |-> [ kind |-> "plaintext", secret |-> "dbSecret", field |-> "password" ],
      DBPORT |-> FromSecretsManager("dbSecret", "port") ]

SecretBindings ==
    [ DBHOST |-> FromSecretsManager("dbSecret", "host"),
      DBNAME |-> FromSecretsManager("dbSecret", "dbname"),
      DBUSER |-> FromSecretsManager("dbSecret", "username"),
      DBPASS |-> FromSecretsManager("dbSecret", "password"),
      DBPORT |-> FromSecretsManager("dbSecret", "port") ]

\* A container whose environment also carries the stage title.
ContainerPropsStageEnv(title, imageTag, time) ==
    [ name         |-> ContainerId(title),
      image        |-> [ repository |-> "repository", tag |-> imageTag ],
      environment  |-> [ FORCE_DEPLOYMENT_ENV_VAR |-> NumberToString(time) \o title ],
      secrets      |-> SecretBindings,
      logging      |-> [ driver        |-> "awslogs",
                         streamPrefix  |-> LogStreamPrefix(title),
                         logRetention  |-> "TWO_WEEKS" ],
      portMappings |-> <<>> ]

\* A container whose changing variable is taken from the image tag.
ContainerPropsTagEnv(title, imageTag, time) ==
    [ name         |-> ContainerId(title),
      image        |-> [ repository |-> "repository", tag |-> imageTag ],
      environment  |-> [ FORCE_DEPLOYMENT_ENV_VAR |-> imageTag ],
      secrets      |-> SecretBindings,
      logging      |-> [ driver        |-> "awslogs",
                         streamPrefix  |-> LogStreamPrefix(title),
                         logRetention  |-> "TWO_WEEKS" ],
      portMappings |-> <<>> ]

ContainerProps(title, imageTag, time) ==
    [ name         |-> ContainerId(title),
      image        |-> [ repository |-> "repository", tag |-> imageTag ],
      environment  |-> [ FORCE_DEPLOYMENT_ENV_VAR |-> NumberToString(time) ],
      secrets      |-> SecretBindings,
      logging      |-> [ driver        |-> "awslogs",
                         streamPrefix  |-> LogStreamPrefix(title),
                         logRetention  |-> "TWO_WEEKS" ],
      portMappings |-> <<>> ]

\* A service that listens on the encrypted port.
ServicePropsHttps(id) ==
    [ id                 |-> id,
      cluster            |-> "ecsCluster",
      taskDefinition     |-> "taskDefinition",
      publicLoadBalancer |-> TRUE,
      assignPublicIp     |-> TRUE,
      protocol           |-> "HTTPS",
      listenerPort       |-> 443,
      securityGroups     |-> << "fargateSecurityGroup" >>,
      taskSubnets        |-> [ subnetType |-> "PUBLIC" ],
      loadBalancer       |-> [ loadBalancerDnsName |->
                                 [ attribute |-> "DNSName",
                                   of        |-> "fargateService.loadBalancer" ] ] ]

ServiceProps(id) ==
    [ id                 |-> id,
      cluster            |-> "ecsCluster",
      taskDefinition     |-> "taskDefinition",
      publicLoadBalancer |-> TRUE,
      assignPublicIp     |-> TRUE,
      protocol           |-> "HTTP",
      listenerPort       |-> 80,
      securityGroups     |-> << "fargateSecurityGroup" >>,
      taskSubnets        |-> [ subnetType |-> "PUBLIC" ],
      loadBalancer       |-> [ loadBalancerDnsName |->
                                 [ attribute |-> "DNSName",
                                   of        |-> "fargateService.loadBalancer" ] ] ]

\* Port.tcp(port)
PortTcp(port) == [ protocol |-> "tcp", port |-> port ]

\* group.connections.allowFrom(peer, port, description): traffic from the
\* peer is allowed into the group.
AllowFrom(group, peer, port, description) ==
    [ group |-> group, peer |-> peer, port |-> port, description |-> description ]

\* ------------------------------------------------------------------------
\* Initial state: the arguments of the constructor and the lookup context
\* ------------------------------------------------------------------------

Init ==
    /\ props \in [ stageName : StageNames, imageTag : ImageTags ]
    /\ context \in [ secretName : SecretNames, securityGroupId : SecurityGroupIds ]
    /\ pc = "stageTitle"
    /\ stageTitle = <<>>
    /\ vpc = Unset
    /\ children = <<>>
    /\ dbSecret = Unset
    /\ secretsManagerPermissions = Unset
    /\ ecsCluster = Unset
    /\ roles = [ executionRole |-> Unset, taskRole |-> Unset ]
    /\ taskDefinition = Unset
    /\ repository = Unset
    /\ securityGroups = [ fargateSecurityGroup |-> Unset, rdsSecurityGroup |-> Unset ]
    /\ fargateService = Unset
    /\ rules = {}
    /\ outputs = {}
    /\ now = Unset
    /\ prev = Unset

\* ------------------------------------------------------------------------
\* The constructor of DeploymentStack, one statement per action
\* ------------------------------------------------------------------------

\* const stageName = props.stageName; const stageTitle = stageTitleCase(stageName)
StageTitle ==
    /\ pc = "stageTitle"
    /\ stageTitle' = stageTitleCase(props.stageName)
    /\ pc' = "vpc"
    /\ UNCHANGED <<props, context, vpc, children, dbSecret,
                       secretsManagerPermissions, ecsCluster, roles, taskDefinition,
                       repository, securityGroups, fargateService, rules, outputs,
                       now, prev>>

\* const vpc = getVpc(this)
GetVpc ==
    /\ pc = "vpc"
    /\ vpc' = << [ lookup |-> "vpc" ] >>
    /\ pc' = "dbSecret"
    /\ UNCHANGED <<props, context, stageTitle, children, dbSecret,
                       secretsManagerPermissions, ecsCluster, roles, taskDefinition,
                       repository, securityGroups, fargateService, rules, outputs,
                       now, prev>>

\* const dbSecret = Secret.fromSecretNameV2(this, 'dbSecret', <lookup>)
DbSecret ==
    /\ pc = "dbSecret"
    /\ IF Declared(DbSecretId) THEN Abort
       ELSE /\ children' = Child(DbSecretId, "Secret")
            /\ dbSecret' = << [ id         |-> DbSecretId,
                                secretName |-> LookupSecretName,
                                secretArn  |-> SecretArn(LookupSecretName) ] >>
            /\ pc' = "secretsManagerPermissions"
            /\ UNCHANGED <<props, context, stageTitle, vpc, secretsManagerPermissions,
                       ecsCluster, roles, taskDefinition, repository,
                       securityGroups, fargateService, rules, outputs, now, prev>>

\* const secretsManagerPermissions = new PolicyStatement({...})
SecretsManagerPermissions ==
    /\ pc = "secretsManagerPermissions"
    /\ secretsManagerPermissions' = << SecretsManagerStatement(dbSecret[1]) >>
    /\ pc' = "ecsCluster"
    /\ UNCHANGED <<props, context, stageTitle, vpc, children, dbSecret,
                       ecsCluster, roles, taskDefinition, repository,
                       securityGroups, fargateService, rules, outputs, now, prev>>

\* const ecsCluster = new Cluster(this, `ECS${stageTitle}-Cluster`, { vpc })
EcsCluster ==
    /\ pc = "ecsCluster"
    /\ IF Declared(ClusterId(stageTitle)) THEN Abort
       ELSE /\ children' = Child(ClusterId(stageTitle), "Cluster")
            /\ ecsCluster' = << [ id |-> ClusterId(stageTitle), vpc |-> vpc[1] ] >>
            /\ pc' = "executionRole"
            /\ UNCHANGED <<props, context, stageTitle, vpc, dbSecret,
                       secretsManagerPermissions, roles, taskDefinition, repository,
                       securityGroups, fargateService, rules, outputs, now, prev>>

\* const executionRole = new Role(this, `${stageTitle}ExecutionRole`, {...})
ExecutionRole ==
    /\ pc = "executionRole"
    /\ IF Declared(ExecutionRoleId(stageTitle)) THEN Abort
       ELSE /\ children' = Child(ExecutionRoleId(stageTitle), "Role")
            /\ roles' = [ roles EXCEPT
                            !.executionRole = << NewRole(ExecutionRoleId(stageTitle)) >> ]
            /\ pc' = "executionRoleAddToPolicy"
            /\ UNCHANGED <<props, context, stageTitle, vpc, dbSecret,
                       secretsManagerPermissions, ecsCluster, taskDefinition,
                       repository, securityGroups, fargateService, rules, outputs,
                       now, prev>>

\* executionRole.addToPolicy(new PolicyStatement({...}))
ExecutionRoleAddToPolicy ==
    /\ pc = "executionRoleAddToPolicy"
    /\ roles' = [ roles EXCEPT
                    !.executionRole[1].statements = Append(@, ExecutionStatement) ]
    /\ pc' = "taskRole"
    /\ UNCHANGED <<props, context, stageTitle, vpc, children, dbSecret,
                       secretsManagerPermissions, ecsCluster, taskDefinition,
                       repository, securityGroups, fargateService, rules, outputs,
                       now, prev>>

\* const taskRole = new Role(this, `${stageTitle}TaskRole`, {...})
TaskRole ==
    /\ pc = "taskRole"
    /\ IF Declared(TaskRoleId(stageTitle)) THEN Abort
       ELSE /\ children' = Child(TaskRoleId(stageTitle), "Role")
            /\ roles' = [ roles EXCEPT
                            !.taskRole = << NewRole(TaskRoleId(stageTitle)) >> ]
            /\ pc' = "taskDefinition"
            /\ UNCHANGED <<props, context, stageTitle, vpc, dbSecret,
                       secretsManagerPermissions, ecsCluster, taskDefinition,
                       repository, securityGroups, fargateService, rules, outputs,
                       now, prev>>

\* const taskDefinition = new FargateTaskDefinition(this, `TaskDef-${stageName}`, {...})
TaskDefinition ==
    /\ pc = "taskDefinition"
    /\ IF Declared(TaskDefId(props.stageName)) THEN Abort
       ELSE /\ children' = Child(TaskDefId(props.stageName), "FargateTaskDefinition")
            /\ taskDefinition' = << TaskDefinitionProps(TaskDefId(props.stageName)) >>
            /\ pc' = "addToTaskRolePolicy"
            /\ UNCHANGED <<props, context, stageTitle, vpc, dbSecret,
                       secretsManagerPermissions, ecsCluster, roles, repository,
                       securityGroups, fargateService, rules, outputs, now, prev>>

\* taskDefinition.addToTaskRolePolicy(secretsManagerPermissions): the
\* statement goes to the role the task definition holds as its task role.
AddToTaskRolePolicy ==
    /\ pc = "addToTaskRolePolicy"
    /\ roles' = [ roles EXCEPT
                    ![taskDefinition[1].taskRole][1].statements =
                        Append(@, secretsManagerPermissions[1]) ]
    /\ pc' = "repository"
    /\ UNCHANGED <<props, context, stageTitle, vpc, children, dbSecret,
                       secretsManagerPermissions, ecsCluster, taskDefinition,
                       repository, securityGroups, fargateService, rules, outputs,
                       now, prev>>

\* const repository = Repository.fromRepositoryName(this, 'ECR', ECR_REPOSITORY_NAME)
RepositoryFromName ==
    /\ pc = "repository"
    /\ IF Declared(RepositoryId) THEN Abort
       ELSE /\ children' = Child(RepositoryId, "Repository")
            /\ repository' = << [ id |-> RepositoryId,
                                  repositoryName |-> ECR_REPOSITORY_NAME ] >>
            /\ pc' = "addContainer"
            /\ UNCHANGED <<props, context, stageTitle, vpc, dbSecret,
                       secretsManagerPermissions, ecsCluster, roles, taskDefinition,
                       securityGroups, fargateService, rules, outputs, now, prev>>

\* const container = taskDefinition.addContainer(`${stageTitle}Container`, {...});
\* Date.now() is read here.
AddContainer ==
    /\ pc = "addContainer"
    /\ \E time \in ClockReadings :
         /\ now' = << time >>
         /\ taskDefinition' =
              [ taskDefinition EXCEPT
                  ![1].containers =
                      Append(@, ContainerProps(stageTitle, props.imageTag, time)) ]
    /\ pc' = "addPortMappings"
    /\ UNCHANGED <<props, context, stageTitle, vpc, children, dbSecret,
                       secretsManagerPermissions, ecsCluster, roles, repository,
                       securityGroups, fargateService, rules, outputs, prev>>

\* container.addPortMappings({ containerPort: 3000 })
AddPortMappings ==
    /\ pc = "addPortMappings"
    /\ taskDefinition' =
         [ taskDefinition EXCEPT
             ![1].containers[1].portMappings = Append(@, [ containerPort |-> 3000 ]) ]
    /\ pc' = "fargateSecurityGroup"
    /\ UNCHANGED <<props, context, stageTitle, vpc, children, dbSecret,
                       secretsManagerPermissions, ecsCluster, roles, repository,
                       securityGroups, fargateService, rules, outputs, now, prev>>

\* const fargateSecurityGroup = new SecurityGroup(this, `${stageTitle}FargateSecurityGroup`, {...})
FargateSecurityGroup ==
    /\ pc = "fargateSecurityGroup"
    /\ IF Declared(FargateSecurityGroupId(stageTitle)) THEN Abort
       ELSE /\ children' = Child(FargateSecurityGroupId(stageTitle), "SecurityGroup")
            /\ securityGroups' =
                 [ securityGroups EXCEPT
                     !.fargateSecurityGroup =
                         << [ id               |-> FargateSecurityGroupId(stageTitle),
                              imported         |-> FALSE,
                              securityGroupId  |-> <<>>,
                              vpc              |-> vpc[1],
                              allowAllOutbound |-> TRUE ] >> ]
            /\ pc' = "fargateService"
            /\ UNCHANGED <<props, context, stageTitle, vpc, dbSecret,
                       secretsManagerPermissions, ecsCluster, roles, taskDefinition,
                       repository, fargateService, rules, outputs, now, prev>>

\* const fargateService = new ApplicationLoadBalancedFargateService(this, `${stageTitle}Service`, {...})
FargateService ==
    /\ pc = "fargateService"
    /\ IF Declared(ServiceId(stageTitle)) THEN Abort
       ELSE /\ children' = Child(ServiceId(stageTitle),
                                 "ApplicationLoadBalancedFargateService")
            /\ fargateService' = << ServiceProps(ServiceId(stageTitle)) >>
            /\ pc' = "rdsSecurityGroup"
            /\ UNCHANGED <<props, context, stageTitle, vpc, dbSecret,
                       secretsManagerPermissions, ecsCluster, roles, taskDefinition,
                       repository, securityGroups, rules, outputs, now, prev>>

\* const rdsSecurityGroup = SecurityGroup.fromSecurityGroupId(this, `RDS${stageTitle}SecurityGroup`, <lookup>)
RdsSecurityGroup ==
    /\ pc = "rdsSecurityGroup"
    /\ IF Declared(RdsSecurityGroupId(stageTitle)) THEN Abort
       ELSE /\ children' = Child(RdsSecurityGroupId(stageTitle), "SecurityGroup")
            /\ securityGroups' =
                 [ securityGroups EXCEPT
                     !.rdsSecurityGroup =
                         << [ id               |-> RdsSecurityGroupId(stageTitle),
                              imported         |-> TRUE,
                              securityGroupId  |-> LookupSecurityGroupId,
                              vpc              |-> [ lookup |-> "none" ],
                              allowAllOutbound |-> TRUE ] >> ]
            /\ pc' = "allowFromFargate"
            /\ UNCHANGED <<props, context, stageTitle, vpc, dbSecret,
                       secretsManagerPermissions, ecsCluster, roles, taskDefinition,
                       repository, fargateService, rules, outputs, now, prev>>

\* rdsSecurityGroup.connections.allowFrom(fargateSecurityGroup, Port.tcp(5432), ...)
AllowFromFargate ==
    /\ pc = "allowFromFargate"
    /\ rules' = rules \cup { AllowFrom("rdsSecurityGroup", "fargateSecurityGroup",
                                       PortTcp(5432), "Allow traffic from fargate/ECS") }
    /\ pc' = "allowFromRds"
    /\ UNCHANGED <<props, context, stageTitle, vpc, children, dbSecret,
                       secretsManagerPermissions, ecsCluster, roles, taskDefinition,
                       repository, securityGroups, fargateService, outputs, now,
                       prev>>

\* The second rule declared in the same direction as the first.
AllowFromRdsSameDirection ==
    /\ pc = "allowFromRds"
    /\ rules' = rules \cup { AllowFrom("rdsSecurityGroup", "fargateSecurityGroup",
                                       PortTcp(5432), "Allow traffic from RDS") }
    /\ pc' = "output"
    /\ UNCHANGED <<props, context, stageTitle, vpc, children, dbSecret,
                       secretsManagerPermissions, ecsCluster, roles, taskDefinition,
                       repository, securityGroups, fargateService, outputs, now,
                       prev>>

\* fargateSecurityGroup.connections.allowFrom(rdsSecurityGroup, Port.tcp(5432), ...)
AllowFromRds ==
    /\ pc = "allowFromRds"
    /\ rules' = rules \cup { AllowFrom("fargateSecurityGroup", "rdsSecurityGroup",
                                       PortTcp(5432), "Allow traffic from RDS") }
    /\ pc' = "output"
    /\ UNCHANGED <<props, context, stageTitle, vpc, children, dbSecret,
                       secretsManagerPermissions, ecsCluster, roles, taskDefinition,
                       repository, securityGroups, fargateService, outputs, now,
                       prev>>

\* new CfnOutput(this, `LoadBalancer${stageTitle}DNS`, { value: ...loadBalancerDnsName })
Output ==
    /\ pc = "output"
    /\ IF Declared(OutputId(stageTitle)) THEN Abort
       ELSE /\ children' = Child(OutputId(stageTitle), "CfnOutput")
            /\ outputs' = outputs \cup
                 { [ id    |-> OutputId(stageTitle),
                     value |-> fargateService[1].loadBalancer.loadBalancerDnsName ] }
            /\ pc' = "done"
            /\ UNCHANGED <<props, context, stageTitle, vpc, dbSecret,
                       secretsManagerPermissions, ecsCluster, roles, taskDefinition,
                       repository, securityGroups, fargateService, rules, now, prev>>

\* ------------------------------------------------------------------------
\* The resource graph of a completed pass, without what names its resources
\* ------------------------------------------------------------------------

WithoutId(construct) ==
    [ f \in (DOMAIN construct) \ {"id"} |-> construct[f] ]

ContainerBehaviour(container) ==
    [ image        |-> container.image,
      environment  |-> container.environment,
      secrets      |-> container.secrets,
      logging      |-> [ driver       |-> container.logging.driver,
                         logRetention |-> container.logging.logRetention ],
      portMappings |-> container.portMappings ]

\* Every attribute of the graph except the resource identifiers, the
\* container name and the log stream prefix.
Behaviour ==
    [ kinds          |-> [ i \in 1..Len(children) |-> children[i].kind ],
      vpc            |-> vpc,
      dbSecret       |-> WithoutId(dbSecret[1]),
      ecsCluster     |-> WithoutId(ecsCluster[1]),
      executionRole  |-> WithoutId(roles.executionRole[1]),
      taskRole       |-> WithoutId(roles.taskRole[1]),
      taskDefinition |-> [ WithoutId(taskDefinition[1]) EXCEPT
                             !.containers =
                                 [ i \in 1..Len(@) |-> ContainerBehaviour(@[i]) ] ],
      repository     |-> WithoutId(repository[1]),
      fargateSecurityGroup |-> WithoutId(securityGroups.fargateSecurityGroup[1]),
      rdsSecurityGroup     |-> WithoutId(securityGroups.rdsSecurityGroup[1]),
      fargateService |-> WithoutId(fargateService[1]),
      rules          |-> rules,
      outputs        |-> { o.value : o \in outputs } ]

\* The value of FORCE_DEPLOYMENT_ENV_VAR of the declared container.
ForceDeploymentValue ==
    taskDefinition[1].containers[1].environment.FORCE_DEPLOYMENT_ENV_VAR

\* ------------------------------------------------------------------------
\* Later passes: the declaration is assembled again, with the same or with
\* other arguments, against the same lookup context
\* ------------------------------------------------------------------------

\* The constructor has returned; the graph of the pass is kept for
\* comparison and the next pass starts from an empty stack.
EndPass ==
    /\ pc = "done"
    /\ prev' = << [ imageTag   |-> props.imageTag,
                    time       |-> now[1],
                    forced     |-> ForceDeploymentValue,
                    behaviour  |-> Behaviour,
                    sameStage  |-> TRUE ] >>
    /\ pc' = "ended"
    /\ stageTitle' = <<>>
    /\ vpc' = Unset
    /\ children' = <<>>
    /\ dbSecret' = Unset
    /\ secretsManagerPermissions' = Unset
    /\ ecsCluster' = Unset
    /\ roles' = [ executionRole |-> Unset, taskRole |-> Unset ]
    /\ taskDefinition' = Unset
    /\ repository' = Unset
    /\ securityGroups' = [ fargateSecurityGroup |-> Unset, rdsSecurityGroup |-> Unset ]
    /\ fargateService' = Unset
    /\ rules' = {}
    /\ outputs' = {}
    /\ now' = Unset
    /\ UNCHANGED <<props, context>>

\* new DeploymentStack(scope, id, props) with the arguments of the next pass;
\* prev[1].sameStage tells whether the stage name is that of the pass before.
NewPass ==
    /\ pc = "ended"
    /\ \E p \in [ stageName : StageNames, imageTag : ImageTags ] :
         /\ props' = p
         /\ prev' = [ prev EXCEPT ![1].sameStage = (p.stageName = props.stageName) ]
    /\ pc' = "stageTitle"
    /\ UNCHANGED <<context, stageTitle, vpc, children, dbSecret,
                       secretsManagerPermissions, ecsCluster, roles, taskDefinition,
                       repository, securityGroups, fargateService, rules, outputs,
                       now>>

Next ==
    \/ StageTitle
    \/ GetVpc
    \/ DbSecret
    \/ SecretsManagerPermissions
    \/ EcsCluster
    \/ ExecutionRole
    \/ ExecutionRoleAddToPolicy
    \/ TaskRole
    \/ TaskDefinition
    \/ AddToTaskRolePolicy
    \/ RepositoryFromName
    \/ AddContainer
    \/ AddPortMappings
    \/ FargateSecurityGroup
    \/ FargateService
    \/ RdsSecurityGroup
    \/ AllowFromFargate
    \/ AllowFromRds
    \/ Output
    \/ EndPass
    \/ NewPass

Spec == Init /\ [][Next]_vars

\* ------------------------------------------------------------------------
\* Helpers of the properties
\* ------------------------------------------------------------------------

Titled == pc \notin {"stageTitle", "ended"}

CountKind(kind) == Cardinality({ i \in 1..Len(children) : children[i].kind = kind })

RulesOnPort(port) == { r \in rules : r.port.port = port }

HasWildcard(str) == \E i \in 1..Len(str) : str[i] = "*"

Min(S) == CHOOSE x \in S : \A y \in S : x <= y

\* First index of the whitespace-delimited token that holds index i.
TokenBegin(s, i) ==
    Min({ j \in 1..i : \A m \in j..i : ~IsSpace(s[m]) })

\* Indices of the word characters of the token that holds index i.
TokenWordChars(s, i) ==
    { k \in TokenBegin(s, i)..Len(s) :
        /\ IsWordChar(s[k])
        /\ \A m \in TokenBegin(s, i)..k : ~IsSpace(s[m]) }

\* Every whitespace-delimited token capitalized from its first character.
CapitalizedFromTokenStart(s, i) ==
    IF IsSpace(s[i]) THEN s[i]
    ELSE IF i = 1 \/ IsSpace(s[i - 1]) THEN toUpperCase(s[i])
    ELSE toLowerCase(s[i])

\* Every whitespace-delimited token capitalized from its first word character.
CapitalizedFromFirstWordChar(s, i) ==
    IF IsSpace(s[i]) THEN s[i]
    ELSE LET w == TokenWordChars(s, i)
         IN  IF w = {} THEN s[i]
             ELSE IF i < Min(w) THEN s[i]
             ELSE IF i = Min(w) THEN toUpperCase(s[i])
             ELSE toLowerCase(s[i])

\* The ten identifiers the constructor registers under the stack scope.
StackIds(title, stageName) ==
    { DbSecretId, ClusterId(title), ExecutionRoleId(title), TaskRoleId(title),
      TaskDefId(stageName), RepositoryId, FargateSecurityGroupId(title),
      ServiceId(title), RdsSecurityGroupId(title), OutputId(title) }

\* ------------------------------------------------------------------------
\* Properties
\* ------------------------------------------------------------------------

\* C1: a completed pass has registered exactly one cluster, one task
\* definition, one load-balanced service and one output, and exactly two
\* rules on port 5432: one from the service's security group into the data
\* store's and one from the data store's into the service's.
C1_OneOfEachAndTwoRules ==
    pc = "done" =>
        /\ CountKind("Cluster") = 1
        /\ Len(ecsCluster) = 1
        /\ CountKind("FargateTaskDefinition") = 1
        /\ Len(taskDefinition) = 1
        /\ CountKind("ApplicationLoadBalancedFargateService") = 1
        /\ Len(fargateService) = 1
        /\ CountKind("CfnOutput") = 1
        /\ Cardinality(outputs) = 1
        /\ Cardinality(RulesOnPort(5432)) = 2
        /\ { <<r.peer, r.group>> : r \in RulesOnPort(5432) } =
               { <<"fargateSecurityGroup", "rdsSecurityGroup">>,
                 <<"rdsSecurityGroup", "fargateSecurityGroup">> }
        /\ \A r \in RulesOnPort(5432) : r.port.protocol = "tcp"

C1_Witness ==
    /\ pc = "done"
    /\ props.stageName = <<"p", "r", "o", "d", "u", "c", "t", "i", "o", "n">>
    /\ Cardinality(rules) = 2

\* C2: stageTitleCase applied to its own result of a non-empty stage name
\* returns that result unchanged.
C2_TitleCaseIdempotent ==
    (Titled /\ props.stageName # <<>>) =>
        stageTitleCase(stageTitle) = stageTitle

C2_Witness ==
    /\ Titled
    /\ props.stageName = <<"u", "s", "e", "r", "-", "a", "c", "c", " ", "t", "e", "s", "t">>
    /\ stageTitle = <<"U", "s", "e", "r", "-", "a", "c", "c", " ", "T", "e", "s", "t">>

\* C3 as stated: in the title, the first character of every
\* whitespace-delimited token is the uppercased character of the stage name,
\* every other character of the token is the lowercased one, and whitespace
\* is unchanged.
C3_TokenStartCapitalized ==
    Titled =>
        /\ Len(stageTitle) = Len(props.stageName)
        /\ \A i \in 1..Len(props.stageName) :
              stageTitle[i] = CapitalizedFromTokenStart(props.stageName, i)

\* C3 (amended): in every whitespace-delimited token of the stage name, the
\* characters before the first word character are unchanged, the first word
\* character is uppercased and every character after it is lowercased;
\* whitespace and tokens without a word character are unchanged.
C3_FirstWordCharCapitalized ==
    Titled =>
        /\ Len(stageTitle) = Len(props.stageName)
        /\ \A i \in 1..Len(props.stageName) :
              stageTitle[i] = CapitalizedFromFirstWordChar(props.stageName, i)

C3_Witness ==
    /\ Titled
    /\ props.stageName = <<"-", "a">>
    /\ stageTitle = <<"-", "A">>

\* C4: two completed passes with the same image tag, the same lookups and
\* the same clock reading have the same resource graph in everything but
\* the resource identifiers and the log stream prefix, whatever their stage
\* names.
C4_StageOnlyNames ==
    (/\ pc = "done"
     /\ prev # Unset
     /\ prev[1].imageTag = props.imageTag
     /\ prev[1].time = now[1]) =>
        Behaviour = prev[1].behaviour

C4_Witness ==
    /\ pc = "done"
    /\ prev # Unset
    /\ prev[1].imageTag = props.imageTag
    /\ prev[1].time = now[1]
    /\ ~prev[1].sameStage
    /\ stageTitle # <<>>

\* C5: two completed passes that read different clock values have different
\* values of FORCE_DEPLOYMENT_ENV_VAR, also when their stage name and image
\* tag are the same.
C5_ForcedValueChanges ==
    (/\ pc = "done"
     /\ prev # Unset
     /\ prev[1].time # now[1]) =>
        ForceDeploymentValue # prev[1].forced

C5_Witness ==
    /\ pc = "done"
    /\ prev # Unset
    /\ prev[1].sameStage
    /\ prev[1].imageTag = props.imageTag
    /\ prev[1].time # now[1]
    /\ Len(ForceDeploymentValue) # Len(prev[1].forced)

\* C6: the container of a completed pass binds exactly five secrets, each a
\* reference to one of the fields host, dbname, username, password and port
\* of the resolved database secret; no binding is a plaintext value and no
\* other secret is bound.
C6_FiveSecretReferences ==
    pc = "done" =>
        LET bindings == taskDefinition[1].containers[1].secrets
        IN  /\ Cardinality(DOMAIN bindings) = 5
            /\ { bindings[v].field : v \in DOMAIN bindings } =
                   { "host", "dbname", "username", "password", "port" }
            /\ \A v \in DOMAIN bindings :
                  /\ bindings[v].kind = "secretsManagerReference"
                  /\ bindings[v].secret = "dbSecret"
            /\ Len(dbSecret) = 1
            /\ dbSecret[1].secretName = context.secretName
            /\ CountKind("Secret") = 1
            /\ DOMAIN taskDefinition[1].containers[1].environment =
                   { "FORCE_DEPLOYMENT_ENV_VAR" }

C6_Witness ==
    /\ pc = "done"
    /\ context.secretName = <<"d", "b", "/", "c", "r", "e", "d", "e", "n", "t", "i", "a", "l", "s">>
    /\ taskDefinition[1].containers[1].secrets.DBPASS.field = "password"

\* C7: the execution role of a completed pass holds one statement, whose
\* actions are exactly the four image-pull actions and the two log-writing
\* actions, none of them with a wildcard.
C7_ExecutionRoleActions ==
    pc = "done" =>
        LET statements == roles.executionRole[1].statements
        IN  /\ Len(statements) = 1
            /\ Len(statements[1].actions) = 6
            /\ Range(statements[1].actions) =
                   { <<"e", "c", "r", ":", "G", "e", "t", "A", "u", "t", "h", "o", "r", "i", "z", "a", "t", "i", "o", "n", "T", "o", "k", "e", "n">>,
                     <<"e", "c", "r", ":", "B", "a", "t", "c", "h", "C", "h", "e", "c", "k", "L", "a", "y", "e", "r", "A", "v", "a", "i", "l", "a", "b", "i", "l", "i", "t", "y">>,
                     <<"e", "c", "r", ":", "G", "e", "t", "D", "o", "w", "n", "l", "o", "a", "d", "U", "r", "l", "F", "o", "r", "L", "a", "y", "e", "r">>,
                     <<"e", "c", "r", ":", "B", "a", "t", "c", "h", "G", "e", "t", "I", "m", "a", "g", "e">>,
                     <<"l", "o", "g", "s", ":", "C", "r", "e", "a", "t", "e", "L", "o", "g", "S", "t", "r", "e", "a", "m">>,
                     <<"l", "o", "g", "s", ":", "P", "u", "t", "L", "o", "g", "E", "v", "e", "n", "t", "s">> }
            /\ \A a \in Range(statements[1].actions) : ~HasWildcard(a)
            /\ statements[1].effect = "ALLOW"

C7_Witness ==
    /\ pc = "done"
    /\ Len(roles.executionRole[1].statements) = 1
    /\ taskDefinition[1].executionRole = "executionRole"

\* C8: the task role of a completed pass holds one statement, whose only
\* action is secretsmanager:GetSecretValue and whose only resource is the
\* resource identifier of the resolved database secret, without a wildcard;
\* that role is the task role of the task definition.
C8_TaskRoleReadsOneSecret ==
    pc = "done" =>
        LET statements == roles.taskRole[1].statements
        IN  /\ Len(statements) = 1
            /\ statements[1].effect = "ALLOW"
            /\ statements[1].actions = << <<"s", "e", "c", "r", "e", "t", "s", "m", "a", "n", "a", "g", "e", "r", ":", "G", "e", "t", "S", "e", "c", "r", "e", "t", "V", "a", "l", "u", "e">> >>
            /\ statements[1].resources = << SecretArn(context.secretName) >>
            /\ ~HasWildcard(statements[1].resources[1])
            /\ taskDefinition[1].taskRole = "taskRole"

C8_Witness ==
    /\ pc = "done"
    /\ context.secretName = <<"r", "d", "s", "-", "s", "e", "c", "r", "e", "t">>
    /\ Len(roles.taskRole[1].statements) = 1

\* C9: the task definition of a completed pass has one container with one
\* port mapping, container port 3000, memory 512 MiB and CPU 256; the
\* service bound to it is public and listens on port 80 with HTTP; the one
\* output is the load balancer host name of that service.
C9_TaskServiceOutput ==
    pc = "done" =>
        /\ Len(taskDefinition[1].containers) = 1
        /\ Len(taskDefinition[1].containers[1].portMappings) = 1
        /\ taskDefinition[1].containers[1].portMappings[1].containerPort = 3000
        /\ taskDefinition[1].memoryLimitMiB = 512
        /\ taskDefinition[1].cpu = 256
        /\ fargateService[1].taskDefinition = "taskDefinition"
        /\ fargateService[1].publicLoadBalancer
        /\ fargateService[1].listenerPort = 80
        /\ fargateService[1].protocol = "HTTP"
        /\ Cardinality(outputs) = 1
        /\ \A o \in outputs :
              o.value = fargateService[1].loadBalancer.loadBalancerDnsName

C9_Witness ==
    /\ pc = "done"
    /\ props.stageName = <<"s", "t", "a", "g", "i", "n", "g">>
    /\ props.imageTag = <<"a", "b", "c", "1", "2", "3">>
    /\ outputs # {}

\* C10: the ten identifiers registered under the stack scope are pairwise
\* distinct for every stage name, so no pass aborts on a duplicate
\* identifier and a completed pass has registered all ten.
C10_DistinctIds ==
    /\ pc # "aborted"
    /\ Titled => Cardinality(StackIds(stageTitle, props.stageName)) = 10
    /\ pc = "done" =>
          /\ Len(children) = 10
          /\ { children[i].id : i \in 1..Len(children) } =
                 StackIds(stageTitle, props.stageName)

C10_Witness ==
    /\ pc = "done"
    /\ props.stageName = <<"S", "e", "r", "v", "i", "c", "e">>
    /\ stageTitle = <<"S", "e", "r", "v", "i", "c", "e">>
    /\ Len(children) = 10

====
